---- MODULE Spec2Model ----
(***************************************************************************)
(* Model of simulations/polymer.py: the chain generator generate_polymer   *)
(* and the estimator calculate_scaling_exponent.                           *)
(*                                                                         *)
(* Floating-point values are modelled as fixed-point numbers: a finite     *)
(* value is an integer count of 1/Prec units, rounded to nearest after     *)
(* every multiplication, division and square root; NaN and the two         *)
(* infinities are values of their own, produced and propagated as IEEE 754 *)
(* (and numpy, which warns instead of raising) does.  Angles are drawn on  *)
(* a grid of quarter turns, where sine and cosine are 0, 1 or -1.          *)
(*                                                                         *)
(* A worker is a thread of the process making one call of generate_polymer *)
(* (a session of the dashboard); all workers share np.random.              *)
(***************************************************************************)
EXTENDS Integers, FiniteSets, Sequences, TLC

\* ------------------------------------------------------------------ bounds

\* Resolution of the fixed-point numbers: 1.0 is Prec units.
Prec == 1000
\* Largest number of monomers N a call is made with.
MaxN == 4

\* ------------------------------------------------------- floating point

Fin(n) == [k |-> "fin", v |-> n]
NaN == [k |-> "nan", v |-> 0]
\* sgn is 1 or -1
Inf(sgn) == [k |-> "inf", v |-> sgn]

Zero == Fin(0)
One == Fin(Prec)

\* the element of a set of one element; Only({F(v) : v \in {e}}) is F(e) with e
\* evaluated once
Only(S) == CHOOSE v \in S : TRUE

Abs(n) == IF n < 0 THEN -n ELSE n
Sign(n) == IF n < 0 THEN -1 ELSE 1

\* n / d rounded to nearest, half away from zero; d > 0
RoundDiv(n, d) == Sign(n) * ((2 * Abs(n) + d) \div (2 * d))

\* the decimal literal num/den, e.g. 0.8 is Lit(8, 10)
Lit(num, den) == Fin(RoundDiv(num * Prec, den))

\* r or r + 1, whichever is the floor of the square root of n
FloorStep(n, r) == IF (r + 1) * (r + 1) <= n THEN r + 1 ELSE r

RECURSIVE FloorSqrt(_)
FloorSqrt(n) ==
    IF n < 2 THEN n ELSE Only({FloorStep(n, r) : r \in {2 * FloorSqrt(n \div 4)}})

\* r, the floor of the square root of n, or r + 1, whichever is nearer to it
NearestRoot(n, r) == IF n - r * r > r THEN r + 1 ELSE r

\* square root of n rounded to nearest
RoundSqrt(n) == Only({NearestRoot(n, r) : r \in {FloorSqrt(n)}})

FNeg(a) == IF a.k = "nan" THEN NaN ELSE [k |-> a.k, v |-> -a.v]

FAdd(a, b) ==
    IF a.k = "nan" \/ b.k = "nan" THEN NaN
    ELSE IF a.k = "inf" /\ b.k = "inf" THEN (IF a.v = b.v THEN a ELSE NaN)
    ELSE IF a.k = "inf" THEN a
    ELSE IF b.k = "inf" THEN b
    ELSE Fin(a.v + b.v)

FSub(a, b) == FAdd(a, FNeg(b))

FMul(a, b) ==
    IF a.k = "nan" \/ b.k = "nan" THEN NaN
    ELSE IF a.k = "inf" \/ b.k = "inf"
         THEN (IF a.v = 0 \/ b.v = 0 THEN NaN ELSE Inf(Sign(a.v) * Sign(b.v)))
    ELSE Fin(RoundDiv(a.v * b.v, Prec))

\* numpy float64 division: x/0 is an infinity, 0/0 is NaN, nothing is raised
FDiv(a, b) ==
    IF a.k = "nan" \/ b.k = "nan" THEN NaN
    ELSE IF a.k = "inf" THEN (IF b.k = "inf" THEN NaN ELSE Inf(a.v * Sign(b.v)))
    ELSE IF b.k = "inf" THEN Zero
    ELSE IF b.v = 0 THEN (IF a.v = 0 THEN NaN ELSE Inf(Sign(a.v)))
    ELSE Fin(Sign(b.v) * RoundDiv(a.v * Prec, Abs(b.v)))

FSqr(a) == FMul(a, a)

FSqrt(a) ==
    IF a.k = "nan" THEN NaN
    ELSE IF a.k = "inf" THEN (IF a.v > 0 THEN a ELSE NaN)
    ELSE IF a.v < 0 THEN NaN
    ELSE Fin(RoundSqrt(a.v * Prec))

\* position of a non-NaN value on the extended real line
Rank(a) == IF a.k = "inf" THEN <<a.v, 0>> ELSE <<0, a.v>>

\* a < b; every comparison with a NaN is false
FLt(a, b) ==
    /\ a.k # "nan"
    /\ b.k # "nan"
    /\ IF a.k = "fin" /\ b.k = "fin" THEN a.v < b.v
       ELSE \/ Rank(a)[1] < Rank(b)[1]
            \/ Rank(a)[1] = Rank(b)[1] /\ Rank(a)[2] < Rank(b)[2]

FEq(a, b) == a.k # "nan" /\ b.k # "nan" /\ a = b
FLe(a, b) == FLt(a, b) \/ FEq(a, b)
FGt(a, b) == FLt(b, a)
FGe(a, b) == FLe(b, a)

\* np.min of a non-empty tuple of values: NaN if any of them is NaN
FMinOf(vals) ==
    IF \E k \in DOMAIN vals : vals[k].k = "nan" THEN NaN
    ELSE vals[CHOOSE k \in DOMAIN vals : \A j \in DOMAIN vals : FLe(vals[k], vals[j])]

\* np.max of a non-empty tuple of values
FMaxOf(vals) ==
    IF \E k \in DOMAIN vals : vals[k].k = "nan" THEN NaN
    ELSE vals[CHOOSE k \in DOMAIN vals : \A j \in DOMAIN vals : FGe(vals[k], vals[j])]

RECURSIVE FSumOf(_)
FSumOf(vals) == IF Len(vals) = 0 THEN Zero ELSE FAdd(Head(vals), FSumOf(Tail(vals)))

\* np.mean of a tuple of values
FMean(vals) == FDiv(FSumOf(vals), Fin(Len(vals) * Prec))

\* ------------------------------------------------------------- angles

\* Angles are counted in quarter turns: pi/2 is 1, pi is 2, 2*pi is 4.
PI == 2

Cos(q) == CASE q % 4 = 0 -> One
            [] q % 4 = 1 -> Zero
            [] q % 4 = 2 -> FNeg(One)
            [] q % 4 = 3 -> Zero

Sin(q) == CASE q % 4 = 0 -> Zero
            [] q % 4 = 1 -> One
            [] q % 4 = 2 -> Zero
            [] q % 4 = 3 -> FNeg(One)

\* What random_sample() can return: u stands for u/4 in [0, 1).
RawDraws == 0 .. 3

\* np.random.uniform(low, high) from the raw sample u: low + (high - low) * u/4,
\* on the grid of quarter turns; high itself is never returned
Uniform(low, high, u) == low + ((high - low) * u) \div 4

\* The sample a seeded generator returns at position pos of its stream.
SeededSample(pos) == (pos * pos + 3 * pos + 1) % 4

\* ------------------------------------------------------------ program

Workers == {1, 2}

StepSizes == {Zero, One}

SolventTypes ==
    {"Theta Solvent (Ideal)", "Good Solvent (Swollen)", "Bad Solvent (Collapsed)",
     "Good", "Water"}

\* the three regimes the docstring of generate_polymer names
DocumentedSolvents == {"Good", "Bad", "Theta"}

VARIABLES
    pc,            \* pc[w]: where worker w is in its call of generate_polymer
    N,             \* the arguments of the call of worker w
    step_size,
    solvent_type,
    use_saw,
    x, y, z,       \* the coordinate arrays, indexed 0 .. N-1
    scaling,
    i,             \* index of the outer loop
    max_retries,
    attempt,       \* index of the inner loop
    best_x, best_y, best_z,
    rng,           \* np.random's process-global generator
    err,           \* the exception that ended the call, or "none"
    last_cand,     \* the candidate formed by the latest body of the inner loop
    accepted,      \* accepted[w][k]: bead k was committed after a break
    nu_pc,         \* calculate_scaling_exponent: "idle", "call" or "return"
    r_end, nu_N, b,
    nu,            \* its return value
    log_args       \* the arguments np.log was evaluated on

genVars == <<pc, N, step_size, solvent_type, use_saw, x, y, z, scaling, i,
             max_retries, attempt, best_x, best_y, best_z, rng, err,
             last_cand, accepted>>
nuVars == <<nu_pc, r_end, nu_N, b, nu, log_args>>
vars == <<genVars, nuVars>>

STIFFNESS == One
ATTRACTION == Lit(2, 10)
LOOKBACK == 100

\* np.zeros(n)
Zeros(n) == [k \in 0 .. n - 1 |-> Zero]

\* arr[lo:hi] as a tuple
Slice(arr, lo, hi) == [k \in 1 .. hi - lo |-> arr[lo + k - 1]]

Max(m, n) == IF m >= n THEN m ELSE n

Scaling(solvent) ==
    IF solvent = "Good Solvent (Swollen)" THEN One
    ELSE IF solvent = "Bad Solvent (Collapsed)" THEN Lit(8, 10)
    ELSE One

\* max_retries = 50 if use_saw else 1
RetryBudgetAlways(saw) == 50
RetryBudget(saw) == IF saw THEN 50 ELSE 1

\* 1. Base Step
BaseStep(w, theta, phi) ==
    <<FMul(FMul(FMul(step_size[w], Sin(phi)), Cos(theta)), scaling[w]),
      FMul(FMul(FMul(step_size[w], Sin(phi)), Sin(theta)), scaling[w]),
      FMul(FMul(step_size[w], Cos(phi)), scaling[w])>>

Norm(d) == FSqrt(FAdd(FAdd(FSqr(d[1]), FSqr(d[2])), FSqr(d[3])))

Plus(p, q) == <<FAdd(p[1], q[1]), FAdd(p[2], q[2]), FAdd(p[3], q[3])>>
Minus(p, q) == <<FSub(p[1], q[1]), FSub(p[2], q[2]), FSub(p[3], q[3])>>
Times(p, c) == <<FMul(p[1], c), FMul(p[2], c), FMul(p[3], c)>>
Over(p, c) == <<FDiv(p[1], c), FDiv(p[2], c), FDiv(p[3], c)>>

Bead(w, k) == <<x[w][k], y[w][k], z[w][k]>>

\* dx = (dx / current_len) * step_size, and so dy and dz
Renormalize(e, current_len, target) == Times(Over(e, current_len), target)

\* Good solvent: geometric stiffness, then renormalisation to the bond length
GoodStep(w, e) ==
    Only({Renormalize(e, current_len, step_size[w]) : current_len \in {Norm(e)}})
GoodBias(w, d) ==
    Only({GoodStep(w, e) :
            e \in {Plus(d, Times(Minus(Bead(w, i[w] - 1), Bead(w, i[w] - 2)), STIFFNESS))}})

\* Bad solvent: local attraction, renormalised only if the norm is not zero
BadStep(w, e, current_len) ==
    IF FGt(current_len, Zero)
    THEN Times(Renormalize(e, current_len, step_size[w]), scaling[w])
    ELSE e
BadPull(w, e) == Only({BadStep(w, e, current_len) : current_len \in {Norm(e)}})
LocalCm(w, start_node) ==
    <<FMean(Slice(x[w], start_node, i[w])),
      FMean(Slice(y[w], start_node, i[w])),
      FMean(Slice(z[w], start_node, i[w]))>>
BadBias(w, d) ==
    Only({BadPull(w, e) :
            e \in {Plus(d, Times(Minus(LocalCm(w, Max(0, i[w] - LOOKBACK)), Bead(w, i[w] - 1)),
                                 ATTRACTION))}})

\* 2. which solvent physics the body applies
Branch(w) ==
    IF solvent_type[w] = "Good Solvent (Swollen)" /\ i[w] > 1 THEN "good"
    ELSE IF solvent_type[w] = "Bad Solvent (Collapsed)" /\ i[w] > LOOKBACK THEN "bad"
    ELSE "none"

Displacement(w, d) ==
    CASE Branch(w) = "good" -> GoodBias(w, d)
      [] Branch(w) = "bad" -> BadBias(w, d)
      [] Branch(w) = "none" -> d

\* 3. Candidate Position
Candidate(w, d) == Plus(Bead(w, i[w] - 1), d)

\* squared distance between two positions
SumSq(d) == FAdd(FAdd(FSqr(d[1]), FSqr(d[2])), FSqr(d[3]))
Dist2(p, q) == SumSq(Minus(p, q))

\* dists = (x[:i] - cand_x)**2 + (y[:i] - cand_y)**2 + (z[:i] - cand_z)**2
Dists(w, cand) == [k \in 1 .. i[w] |-> Dist2(Bead(w, k - 1), cand)]

\* np.min(dists)
FarthestDist(w, cand) == Only({FMaxOf(dists) : dists \in {Dists(w, cand)}})
NearestDist(w, cand) == Only({FMinOf(dists) : dists \in {Dists(w, cand)}})

\* (step_size * 0.8)**2
ExclusionSq(w) == FSqr(FMul(step_size[w], Lit(8, 10)))

\* 4. SAW Check
SawPasses(w, cand) == FGe(NearestDist(w, cand), ExclusionSq(w))

\* best_x, best_y, best_z = cand_x, cand_y, cand_z
KeepBestUnlessValid(w, cand, ok) == IF ok THEN cand ELSE <<best_x[w], best_y[w], best_z[w]>>
NewBest(w, cand, ok) == cand

\* the index that x[i], y[i], z[i] = best_x, best_y, best_z writes
CommitIndexBefore(w) == i[w] - 1
CommitIndex(w) == i[w]

\* The two draws of one body of the inner loop.  A seeded generator returns its
\* stream in order, whoever draws; an unseeded one may return anything.
Draws(u1, u2) ==
    IF rng.seeded
    THEN /\ u1 = SeededSample(rng.pos)
         /\ u2 = SeededSample(rng.pos + 1)
         /\ rng' = [rng EXCEPT !.pos = rng.pos + 2]
    ELSE rng' = rng

\* np.random.seed(s) by the caller of worker w, before its call
Seed(w) ==
    /\ pc[w] = "seed"
    /\ rng' = [seeded |-> TRUE, pos |-> 0]
    /\ pc' = [pc EXCEPT ![w] = "call"]
    /\ UNCHANGED <<N, step_size, solvent_type, use_saw, x, y, z, scaling, i,
                   max_retries, attempt, best_x, best_y, best_z, err,
                   last_cand, accepted, nuVars>>

\* The head of the outer loop, for i in range(1, N), reached with index k and the
\* arrays xs, ys, zs: either the head of the iteration for bead k, up to the
\* inner loop, or return x, y, z, which ends the frame and its locals.
LoopHead(w, k, xs, ys, zs) ==
    IF k < N[w]
    THEN /\ i' = [i EXCEPT ![w] = k]
         /\ max_retries' = [max_retries EXCEPT ![w] = RetryBudget(use_saw[w])]
         /\ best_x' = [best_x EXCEPT ![w] = xs[k - 1]]
         /\ best_y' = [best_y EXCEPT ![w] = ys[k - 1]]
         /\ best_z' = [best_z EXCEPT ![w] = zs[k - 1]]
         /\ attempt' = [attempt EXCEPT ![w] = 0]
         /\ pc' = [pc EXCEPT ![w] = "for_attempt"]
    ELSE /\ i' = [i EXCEPT ![w] = 0]
         /\ max_retries' = [max_retries EXCEPT ![w] = 0]
         /\ best_x' = [best_x EXCEPT ![w] = Zero]
         /\ best_y' = [best_y EXCEPT ![w] = Zero]
         /\ best_z' = [best_z EXCEPT ![w] = Zero]
         /\ attempt' = [attempt EXCEPT ![w] = 0]
         /\ pc' = [pc EXCEPT ![w] = "return"]

\* Entry of generate_polymer, up to the first body of the inner loop.  np.zeros
\* raises ValueError on a negative N; no argument is checked otherwise.
Enter(w) ==
    /\ pc[w] = "call"
    /\ IF N[w] < 0
       THEN /\ pc' = [pc EXCEPT ![w] = "raised"]
            /\ err' = [err EXCEPT ![w] = "ValueError"]
            /\ UNCHANGED <<x, y, z, scaling, i, max_retries, attempt,
                           best_x, best_y, best_z>>
       ELSE /\ x' = [x EXCEPT ![w] = Zeros(N[w])]
            /\ y' = [y EXCEPT ![w] = Zeros(N[w])]
            /\ z' = [z EXCEPT ![w] = Zeros(N[w])]
            /\ scaling' = [scaling EXCEPT ![w] = Scaling(solvent_type[w])]
            /\ LoopHead(w, 1, Zeros(N[w]), Zeros(N[w]), Zeros(N[w]))
            /\ UNCHANGED err
    /\ UNCHANGED <<N, step_size, solvent_type, use_saw, rng, last_cand,
                   accepted, nuVars>>

\* What one body of the inner loop does with its candidate cand, ok telling
\* whether it breaks.  When it breaks, or was the last of the range, bead i is
\* committed and the outer loop goes on.
Body(w, cand, ok, best) ==
    /\ last_cand' = [last_cand EXCEPT ![w] = cand]
    /\ IF ~ok /\ attempt[w] + 1 < max_retries[w]
       THEN /\ attempt' = [attempt EXCEPT ![w] = attempt[w] + 1]
            /\ best_x' = [best_x EXCEPT ![w] = best[1]]
            /\ best_y' = [best_y EXCEPT ![w] = best[2]]
            /\ best_z' = [best_z EXCEPT ![w] = best[3]]
            /\ UNCHANGED <<x, y, z, i, max_retries, pc, accepted>>
       ELSE /\ x' = [x EXCEPT ![w][CommitIndex(w)] = best[1]]
            /\ y' = [y EXCEPT ![w][CommitIndex(w)] = best[2]]
            /\ z' = [z EXCEPT ![w][CommitIndex(w)] = best[3]]
            /\ accepted' = [accepted EXCEPT ![w] =
                               [k \in DOMAIN accepted[w] \cup {i[w]} |->
                                   IF k = i[w] THEN ok ELSE accepted[w][k]]]
            /\ LoopHead(w, i[w] + 1, x'[w], y'[w], z'[w])

\* One body of the inner loop, for attempt in range(max_retries), with the raw
\* samples u1 and u2 of its two draws.
Attempt(w, u1, u2) ==
    /\ pc[w] = "for_attempt"
    /\ Draws(u1, u2)
    /\ \E theta \in {Uniform(0, 2 * PI, u1)}, phi \in {Uniform(0, PI, u2)} :
          \E base \in {BaseStep(w, theta, phi)} :
             \E d \in {Displacement(w, base)} :
                \E cand \in {Candidate(w, d)} :
                   \E ok \in {use_saw[w] /\ SawPasses(w, cand)} :
                      Body(w, cand, ok, NewBest(w, cand, ok))
    /\ UNCHANGED <<N, step_size, solvent_type, use_saw, scaling, err, nuVars>>

Step(w) ==
    \/ Enter(w)
    \/ \E u1 \in RawDraws, u2 \in RawDraws : Attempt(w, u1, u2)

NuIdle ==
    /\ nu_pc = "idle"
    /\ r_end = Zero
    /\ nu_N = 0
    /\ b = Zero
    /\ nu = Zero
    /\ log_args = {}

InitLocals ==
    /\ x = [w \in Workers |-> <<>>]
    /\ y = [w \in Workers |-> <<>>]
    /\ z = [w \in Workers |-> <<>>]
    /\ scaling = [w \in Workers |-> One]
    /\ i = [w \in Workers |-> 0]
    /\ max_retries = [w \in Workers |-> 0]
    /\ attempt = [w \in Workers |-> 0]
    /\ best_x = [w \in Workers |-> Zero]
    /\ best_y = [w \in Workers |-> Zero]
    /\ best_z = [w \in Workers |-> Zero]
    /\ err = [w \in Workers |-> "none"]
    /\ last_cand = [w \in Workers |-> <<Zero, Zero, Zero>>]
    /\ accepted = [w \in Workers |-> <<>>]

\* One call of generate_polymer, by worker 1, with any arguments; the global
\* generator is unseeded.
Init ==
    /\ \E n \in -1 .. MaxN, s \in StepSizes, solv \in SolventTypes, saw \in BOOLEAN :
          /\ pc = [w \in Workers |-> IF w = 1 THEN "call" ELSE "idle"]
          /\ N = [w \in Workers |-> IF w = 1 THEN n ELSE 0]
          /\ step_size = [w \in Workers |-> IF w = 1 THEN s ELSE One]
          /\ solvent_type = [w \in Workers |-> IF w = 1 THEN solv ELSE "Theta Solvent (Ideal)"]
          /\ use_saw = [w \in Workers |-> IF w = 1 THEN saw ELSE FALSE]
    /\ rng = [seeded |-> FALSE, pos |-> 0]
    /\ InitLocals
    /\ NuIdle

Next == \E w \in Workers : Step(w)

Spec == Init /\ [][Next]_vars

\* Two workers of one process, each seeding the generator with the same seed and
\* then making the same call; their steps interleave.
InitConc ==
    /\ \E n \in 1 .. MaxN, solv \in SolventTypes, saw \in BOOLEAN :
          /\ pc = [w \in Workers |-> "seed"]
          /\ N = [w \in Workers |-> n]
          /\ step_size = [w \in Workers |-> One]
          /\ solvent_type = [w \in Workers |-> solv]
          /\ use_saw = [w \in Workers |-> saw]
    /\ rng = [seeded |-> FALSE, pos |-> 0]
    /\ InitLocals
    /\ NuIdle

NextConc == \E w \in Workers : Seed(w) \/ Step(w)

SpecConc == InitConc /\ [][NextConc]_vars

\* ------------------------------------------- calculate_scaling_exponent

\* log2 of v/Prec in units of 1/Prec, v > 0: exact at the powers of two, linear
\* between them
RECURSIVE Log2Fix(_)
Log2Fix(v) ==
    IF v >= 2 * Prec THEN Prec + Log2Fix(v \div 2)
    ELSE IF v < Prec THEN Log2Fix(2 * v) - Prec
    ELSE v - Prec

\* np.log: NaN below zero, minus infinity at zero, nothing is raised
NpLog(a) ==
    IF a.k = "nan" THEN NaN
    ELSE IF a.k = "inf" THEN (IF a.v > 0 THEN a ELSE NaN)
    ELSE IF a.v < 0 THEN NaN
    ELSE IF a.v = 0 THEN Inf(-1)
    ELSE FMul(Fin(Log2Fix(a.v)), Lit(693, 1000))

\* if r_end <= 0 or b <= 0 or N <= 1
Degenerate(r, n, kuhn) == FLe(r, Zero) \/ FLe(kuhn, Zero) \/ n <= 1

\* the whole of calculate_scaling_exponent(r_end, N, b)
ScalingExponent ==
    /\ nu_pc = "call"
    /\ IF Degenerate(r_end, nu_N, b)
       THEN /\ nu' = Zero
            /\ UNCHANGED log_args
       ELSE /\ nu' = FDiv(NpLog(FDiv(r_end, b)), NpLog(Fin(nu_N * Prec)))
            /\ log_args' = {FDiv(r_end, b), Fin(nu_N * Prec)}
    /\ nu_pc' = "return"
    /\ UNCHANGED <<r_end, nu_N, b, genVars>>

\* What analyze_chain returns as end_to_end is a square root, or NaN for a chain
\* that holds a NaN; a caller may pass anything.
EndToEnds == {NaN, Fin(-Prec), Zero, Lit(1, 2), One, Fin(5 * Prec)}
MonomerCounts == {0, 1, 2, 10, 100}
KuhnLengths == {Fin(-Prec), Zero, Lit(1, 2), One}

GenIdle ==
    /\ pc = [w \in Workers |-> "idle"]
    /\ N = [w \in Workers |-> 0]
    /\ step_size = [w \in Workers |-> One]
    /\ solvent_type = [w \in Workers |-> "Theta Solvent (Ideal)"]
    /\ use_saw = [w \in Workers |-> FALSE]
    /\ rng = [seeded |-> FALSE, pos |-> 0]
    /\ InitLocals

InitNu ==
    /\ nu_pc = "call"
    /\ r_end \in EndToEnds
    /\ nu_N \in MonomerCounts
    /\ b \in KuhnLengths
    /\ nu = Zero
    /\ log_args = {}
    /\ GenIdle

NextNu == ScalingExponent

SpecNu == InitNu /\ [][NextNu]_vars

\* -------------------------------------------------------- properties

Origin == <<Zero, Zero, Zero>>

Called(w) == pc[w] \in {"for_attempt", "return"}

\* p == q as numpy compares positions: a NaN equals nothing
SamePosition(p, q) == FEq(p[1], q[1]) /\ FEq(p[2], q[2]) /\ FEq(p[3], q[3])

\* the index of the bead committed last, 0 when none is
LastCommitted(w) ==
    IF pc[w] = "for_attempt" THEN i[w] - 1
    ELSE IF pc[w] = "return" /\ N[w] >= 1 THEN N[w] - 1
    ELSE 0

\* C1: for N >= 1, from the allocation on and in the returned chain, the three
\* arrays hold exactly the N positions 0 .. N-1 and bead 0 is (0,0,0), whatever
\* was committed so far.
C1_ChainShape ==
    \A w \in Workers :
        Called(w) /\ N[w] >= 1 =>
            /\ DOMAIN x[w] = 0 .. N[w] - 1
            /\ DOMAIN y[w] = 0 .. N[w] - 1
            /\ DOMAIN z[w] = 0 .. N[w] - 1
            /\ Bead(w, 0) = Origin

C1_Witness ==
    /\ pc[1] = "return"
    /\ N[1] >= 3
    /\ Bead(1, 1) # Origin
    /\ Bead(1, 2) # Origin

\* C2: a bead committed after a break (an attempt that passed the
\* excluded-volume check) is, in every later state, at squared distance at least
\* (0.8 * step_size)^2 from every earlier bead; only a call with use_saw has
\* such beads.
C2_AcceptedBeadsApart ==
    \A w \in Workers :
        \A k \in DOMAIN accepted[w] :
            accepted[w][k] =>
                /\ use_saw[w]
                /\ \A j \in 0 .. k - 1 :
                      FGe(Dist2(Bead(w, j), Bead(w, k)), ExclusionSq(w))

C2_Witness ==
    /\ pc[1] = "return"
    /\ use_saw[1]
    /\ N[1] >= 3
    /\ step_size[1] = One
    /\ \A k \in 1 .. N[1] - 1 : accepted[1][k]
    /\ Bead(1, 2) # Bead(1, 1)

\* C3: with use_saw, a bead committed without a break (every attempt of the
\* budget failed the check) holds the candidate of the last attempt, which for a
\* non-zero step is not the position of the bead before it; no error is raised
\* and the call goes on with the next bead or returns.
C3_FallbackCommitsLast ==
    \A w \in Workers :
        /\ Called(w)
        /\ use_saw[w]
        /\ attempt[w] = 0
        /\ LastCommitted(w) >= 1
        /\ ~accepted[w][LastCommitted(w)]
        => /\ Bead(w, LastCommitted(w)) = last_cand[w]
           /\ step_size[w] # Zero =>
                 ~SamePosition(Bead(w, LastCommitted(w)), Bead(w, LastCommitted(w) - 1))
           /\ err[w] = "none"
           /\ pc[w] = "for_attempt" => i[w] = LastCommitted(w) + 1

C3_Witness ==
    /\ pc[1] = "for_attempt"
    /\ use_saw[1]
    /\ step_size[1] = One
    /\ i[1] = 3
    /\ attempt[1] = 0
    /\ ~accepted[1][2]

\* C4: a call with N < 1 or step_size <= 0 is refused at entry with
\* InvalidArgument: it never reaches the loops and returns no chain.
C4_InvalidArgumentRejected ==
    \A w \in Workers :
        pc[w] # "idle" /\ (N[w] < 1 \/ FLe(step_size[w], Zero)) =>
            /\ ~Called(w)
            /\ pc[w] = "raised" => err[w] = "InvalidArgument"

\* C5: two calls with the same arguments made after seeding the generator with
\* the same seed return the same chain, also when two workers make them
\* concurrently.
C5_SameSeedSameChain ==
    pc[1] = "return" /\ pc[2] = "return" =>
        /\ x[1] = x[2]
        /\ y[1] = y[2]
        /\ z[1] = z[2]

\* C6: the solvent documented as "Good" gets the Good-solvent bias from the
\* third bead on, and a call with valid N and step_size but a solvent that is
\* neither one of the three documented names nor one of the three labels is
\* refused instead of generated.
RecognisedSolvents ==
    DocumentedSolvents \cup
        {"Theta Solvent (Ideal)", "Good Solvent (Swollen)", "Bad Solvent (Collapsed)"}

C6_ClosedSolventDispatch ==
    \A w \in Workers :
        /\ solvent_type[w] = "Good" /\ pc[w] = "for_attempt" /\ i[w] > 1 =>
              Branch(w) = "good"
        /\ /\ solvent_type[w] \notin RecognisedSolvents
           /\ N[w] >= 1
           /\ FGt(step_size[w], Zero)
           => ~Called(w)

\* a is b within one percent of b
Near(a, bb) ==
    /\ a.k = "fin"
    /\ bb.k = "fin"
    /\ 100 * Abs(a.v - bb.v) <= Abs(bb.v)

C8_SentinelOrLog ==
    nu_pc = "return" =>
        /\ FLe(r_end, Zero) \/ FLe(b, Zero) \/ nu_N <= 1 =>
              nu = Zero /\ log_args = {}
        /\ log_args # {} => FGt(r_end, Zero) /\ FGt(b, Zero) /\ nu_N > 1

\* C9: no coordinate of the chain is ever NaN or infinite: a zero norm in the
\* Good-solvent renormalisation is retried, not divided by.
C9_NoNaNCommitted ==
    \A w \in Workers :
        \A k \in DOMAIN x[w] :
            x[w][k].k = "fin" /\ y[w][k].k = "fin" /\ z[w][k].k = "fin"

\* the bodies of the inner loop a call may still execute, plus its other steps
StepsLeft(w) ==
    CASE pc[w] = "seed" -> Max(N[w], 0) * 50 + 2
      [] pc[w] = "call" -> Max(N[w], 0) * 50 + 1
      [] pc[w] = "for_attempt" -> (N[w] - i[w]) * 50 - attempt[w]
      [] OTHER -> 0

\* C10, step by step: a step that commits bead i is the body number attempt + 1
\* of the inner loop for it, at most the 50th, and the first when use_saw is
\* off; the beads are committed in the order 1, 2, ...; a body after which the
\* loop goes on did not pass the excluded-volume check; and every step of a call
\* takes it closer to its end.
C10_Step ==
    \A w \in Workers :
        /\ pc[w] = "for_attempt" /\ i'[w] # i[w] =>
              /\ attempt[w] + 1 >= 1
              /\ attempt[w] + 1 <= 50
              /\ ~use_saw[w] => attempt[w] = 0
              /\ DOMAIN accepted'[w] = 1 .. i[w]
              /\ \/ pc'[w] = "for_attempt" /\ i'[w] = i[w] + 1
                 \/ pc'[w] = "return" /\ i[w] = N[w] - 1
        /\ pc[w] = "for_attempt" /\ i'[w] = i[w] /\ attempt'[w] # attempt[w] =>
              /\ attempt'[w] = attempt[w] + 1
              /\ attempt'[w] < 50
              /\ use_saw[w]
              /\ ~SawPasses(w, last_cand'[w])
        /\ <<pc[w], i[w], attempt[w]>> # <<pc'[w], i'[w], attempt'[w]>> =>
              /\ StepsLeft(w)' < StepsLeft(w)
              /\ StepsLeft(w)' >= 0

\* C10: a call ends after a bounded number of steps, each bead taking between 1
\* and 50 attempts with use_saw and exactly 1 without, retried only while the
\* check fails; when it returns, the beads 1 .. N-1 have all been committed, in
\* that order.
C10_BoundedRetries ==
    /\ [][C10_Step]_vars
    /\ [](\A w \in Workers : pc[w] = "return" => DOMAIN accepted[w] = 1 .. N[w] - 1)

C10_Witness ==
    /\ pc[1] = "return"
    /\ use_saw[1]
    /\ N[1] >= 3
    /\ accepted[1][1]
    /\ ~accepted[1][2]

====
